---- MODULE Spec2Model ----
(***************************************************************************)
(* Settlement and consistency subsystem of remnawave-tg-shop:              *)
(*   - db/migrator.py              the schema migration runner             *)
(*   - bot/services/crypto_pay_service.py   the CryptoPay webhook handler  *)
(*   - bot/handlers/user/referral.py + db/dal/payout_dal.py   payouts      *)
(*   - bot/scheduler/jobs.py       the expired-subscription job            *)
(* Each subsystem has its own specification (SpecMig, SpecPay, SpecRetry,  *)
(* SpecInv, SpecGift, SpecPayout, SpecJob, SpecJobFair) over the shared    *)
(* variable list; a specification leaves the variables of the other        *)
(* subsystems at their initial values.                                     *)
(***************************************************************************)
EXTENDS Integers, Sequences, FiniteSets, TLC

(***************************************************************************)
(* Bounds of the model.                                                    *)
(***************************************************************************)
\* number of migration runs (process bootstraps) explored
MaxRuns == 3
\* number of payout submissions (messages routed to process_requisites_input)
MaxRequests == 2
\* number of webhook deliveries handed to _invoice_paid_handler
MaxDeliveries == 2
\* number of calls of create_invoice
MaxInvoices == 2
\* largest number of purchased months of a gift
MaxGiftMonths == 25
\* number of subscriptions the expired-subscription job is given
MaxSubs == 3

(***************************************************************************)
(* State.                                                                  *)
(***************************************************************************)
VARIABLES
    \* ---- migrator.py: the connection's view of the database
    schema,             \* set of structural elements (columns, tables, indexes)
    ledgerTable,        \* TRUE once schema_migrations exists
    ledger,             \* set of ids in schema_migrations (id is the primary key)
    \* ---- migrator.py: run_database_migrations' locals and position
    mpc,                \* "idle" | "loop" | "upgrade" | "insert" | "done" | "raised"
    applied_revisions,  \* the set read at line 165
    mi,                 \* index into MIGRATIONS of the for loop
    stmts,              \* statements the running upgrade has still to execute
    savepoint,          \* what begin_nested() recorded
    \* ---- migrator.py: history of the runs (not program state)
    runNo,              \* number of runs started
    prevOk,             \* the run before this one ended without raising
    startSchema,        \* schema when this run started
    startLedger,        \* ledger when this run started
    changes,            \* structural statements executed in this run
    attempted,          \* indexes whose nested scope was entered in this run
    failedAt,           \* index of the migration that failed in this run, 0 if none
    failStage,          \* "none" | "upgrade" | "insert": where it failed
    \* ---- referral.py / payout_dal.py: committed rows of the database
    balance,            \* users.balance, per user
    payouts,            \* the rows of table payouts
    payoutSeq,          \* last value of the serial payouts.payout_id
    fsm,                \* dialog state of each user (FSMContext)
    \* ---- referral.py: each process_requisites_input call
    rpc,                \* position of the call
    ruser,              \* message.from_user.id
    rbalance,           \* the local `balance`
    rpayout,            \* the local `new_payout`
    rsess,              \* uncommitted writes of the call's session
    rtext,              \* message.text
    \* ---- referral.py: history (not program state)
    credited,           \* total ever credited to each user's balance
    zeroCommits,        \* calls whose zeroing of the balance is committed
    overlapped,         \* calls that ran while another call of the user ran
    notified,           \* calls whose notify_new_payout was sent
    \* ---- crypto_pay_service.py: committed rows of the database
    payments,           \* table payments, by payment_id
    promo_codes,        \* rows of the gift (promo) codes
    activations,        \* subscription activations made by activate_subscription
    \* ---- crypto_pay_service.py: each _invoice_paid_handler call
    dpc,                \* position of the call
    dmeta,              \* user_id, months, payment_db_id parsed from the payload
    dpayment,           \* the local `payment`
    dsess,              \* uncommitted writes of the call's session
    \* ---- crypto_pay_service.py: history (not program state)
    dwhy,               \* why the payload of a call did not parse ("" if it did)
    statusCommits,      \* calls whose status write is committed
    invoked,            \* calls that invoked activate_subscription
    sent,               \* outbound messages delivered: <<call, kind>>
    tried,              \* outbound messages attempted: <<call, kind>>
    doneBefore,         \* per call: calls that had succeeded when it arrived
    doverlap,           \* calls that ran while another call for the payment ran
    \* ---- crypto_pay_service.py: the service and each create_invoice call
    configured,         \* self.configured
    paySeq,             \* last value of the serial payments.payment_id
    ipc,                \* position of the call
    igift,              \* the argument is_gift
    irec,               \* payment_record.payment_id, 0 before the record exists
    iret,               \* what the call returned: "" (not yet), "None", "url"
    \* ---- crypto_pay_service.py: history (not program state)
    ifail,              \* the step of the call that raised ("" if none did)
    \* ---- crypto_pay_service.py: the gift code computation on its own
    gtoday,             \* date.today()
    gmonths,            \* months
    gbonus,             \* promo_data["bonus_days"], 0 before it is computed
    gpc,                \* "ready" | "issued"
    \* ---- scheduler/jobs.py: committed rows of the database
    subscriptions,      \* the rows of the subscriptions the job is given
    \* ---- scheduler/jobs.py: check_expired_subscriptions_job
    jpc,                \* "idle" | "loop" | "commit" | "send" | "done" | "raised"
    ji,                 \* position of `sub` in `subs`
    jsess,              \* uncommitted changes of the job's session
    \* ---- scheduler/jobs.py: history (not program state)
    charged,            \* subscriptions whose renewal charge was attempted
    messaged,           \* subscriptions the payment-failed message was sent for
    increments,         \* committed increments of each subscription's step
    jfailed,            \* subscriptions whose processing raised
    visited,            \* subscriptions the loop has gone through
    jcause              \* per subscription: what failed ("" | "charge" | "commit")

migVars == <<schema, ledgerTable, ledger, mpc, applied_revisions, mi, stmts,
             savepoint, runNo, prevOk, startSchema, startLedger, changes,
             attempted, failedAt, failStage>>

poVars == <<balance, payouts, payoutSeq, fsm, rpc, ruser, rbalance, rpayout,
            rsess, rtext, credited, zeroCommits, overlapped, notified>>

payVars == <<payments, promo_codes, activations, dpc, dmeta, dpayment,
             dsess, dwhy, statusCommits, invoked, sent, tried, doneBefore,
             doverlap>>

invVars == <<configured, paySeq, ipc, igift, irec, iret, ifail>>

\* the handler calls' variables: payVars without the table payments
handlerVars == <<promo_codes, activations, dpc, dmeta, dpayment, dsess, dwhy,
                 statusCommits, invoked, sent, tried, doneBefore, doverlap>>

giftVars == <<gtoday, gmonths, gbonus, gpc>>

jobVars == <<subscriptions, jpc, ji, jsess, charged, messaged, increments,
             jfailed, visited, jcause>>

vars == <<migVars, poVars, payVars, invVars, giftVars, jobVars>>

(***************************************************************************)
(* db/migrator.py                                                          *)
(***************************************************************************)

\* Statements a migration issues for the elements of `wanted` (in order)
\* that inspection does not find in the schema.
MissingOfUninspected(wanted, sch) == wanted
MissingOf(wanted, sch) == SelectSeq(wanted, LAMBDA e : e \notin sch)

migration_0001_add_channel_subscription_fields(sch) ==
    MissingOf(<<"users.channel_subscription_verified",
                "users.channel_subscription_checked_at",
                "users.channel_subscription_verified_for">>, sch)

migration_0002_add_user_balance(sch) ==
    MissingOf(<<"users.balance">>, sch)

migration_0003_add_user_total_earned(sch) ==
    MissingOf(<<"users.total_earned">>, sch)

migration_0004_add_user_referral_reward_applied(sch) ==
    MissingOf(<<"payments.referral_reward_applied">>, sch)

migration_0005_add_subscription_resend_disable_fields(sch) ==
    MissingOf(<<"subscriptions.resend_disable_message_date",
                "subscriptions.resend_disable_message_step">>, sch)

\* returns at once when the table exists, whatever indexes it has
migration_0006_create_payouts_table(sch) ==
    IF "payouts" \in sch
    THEN <<>>
    ELSE <<"payouts", "idx_payouts_user_id", "idx_payouts_status">>

\* The declared list, in declared order.
MIGRATIONS ==
    << [id |-> "0001_add_channel_subscription_fields"],
       [id |-> "0002_add_user_balance"],
       [id |-> "0003_add_user_total_earned"],
       [id |-> "0004_add_user_referral_reward_applied"],
       [id |-> "0005_add_subscription_resend_disable_fields"],
       [id |-> "0006_create_payouts_table"] >>

NMig == Len(MIGRATIONS)

\* migration.upgrade(connection): the statements MIGRATIONS[i].upgrade issues
Upgrade(i, sch) ==
    CASE i = 1 -> migration_0001_add_channel_subscription_fields(sch)
      [] i = 2 -> migration_0002_add_user_balance(sch)
      [] i = 3 -> migration_0003_add_user_total_earned(sch)
      [] i = 4 -> migration_0004_add_user_referral_reward_applied(sch)
      [] i = 5 -> migration_0005_add_subscription_resend_disable_fields(sch)
      [] OTHER -> migration_0006_create_payouts_table(sch)

\* Everything migration i can create.
Elements(i) ==
    CASE i = 1 -> {"users.channel_subscription_verified",
                   "users.channel_subscription_checked_at",
                   "users.channel_subscription_verified_for"}
      [] i = 2 -> {"users.balance"}
      [] i = 3 -> {"users.total_earned"}
      [] i = 4 -> {"payments.referral_reward_applied"}
      [] i = 5 -> {"subscriptions.resend_disable_message_date",
                   "subscriptions.resend_disable_message_step"}
      [] OTHER -> {"payouts", "idx_payouts_user_id", "idx_payouts_status"}

Ids(S) == {MIGRATIONS[j].id : j \in S}

\* `if migration.id in applied_revisions: continue`
IsAppliedNever(id, applied) == FALSE
IsApplied(id, applied) == id \in applied

\* What the connection sees after the nested scope is left by an exception:
\* the savepoint's state (ROLLBACK TO SAVEPOINT).
NestedRollbackKeeps(sp, cur) == cur
NestedRollbackLosesLedger(sp, cur) == [schema |-> sp.schema, ledger |-> {}]
NestedRollback(sp, cur) == sp

\* The except clause: log and `raise exc`; the for loop is left.
ExceptSwallows(i) == [pc |-> "loop", i |-> i + 1]
ExceptReturns(i) == [pc |-> "done", i |-> i]
ExceptClause(i) == [pc |-> "raised", i |-> i]

\* Schemas a database can have when the runner first meets it: one created
\* by a model that knew the elements of the first k migrations, or one
\* holding only some of the three columns of migration 0001.
InitSchemas ==
    {UNION {Elements(j) : j \in 1..k} : k \in 0..NMig}
      \cup (SUBSET Elements(1))

MigHistoryInit ==
    /\ runNo = 0
    /\ prevOk = FALSE
    /\ startSchema = {}
    /\ startLedger = {}
    /\ changes = 0
    /\ attempted = {}
    /\ failedAt = 0
    /\ failStage = "none"

MigIdle ==
    /\ schema = {}
    /\ ledgerTable = FALSE
    /\ ledger = {}
    /\ mpc = "idle"
    /\ applied_revisions = {}
    /\ mi = 1
    /\ stmts = <<>>
    /\ savepoint = [schema |-> {}, ledger |-> {}]
    /\ MigHistoryInit

MigFresh ==
    /\ schema \in InitSchemas
    /\ ledgerTable = FALSE
    /\ ledger = {}
    /\ mpc = "idle"
    /\ applied_revisions = {}
    /\ mi = 1
    /\ stmts = <<>>
    /\ savepoint = [schema |-> {}, ledger |-> {}]
    /\ MigHistoryInit

\* run_database_migrations is entered: _ensure_migrations_table, then the
\* SELECT of the applied ids.
StartRun ==
    /\ UNCHANGED <<poVars, payVars, invVars, giftVars, jobVars>>
    /\ mpc \in {"idle", "done", "raised"}
    /\ runNo < MaxRuns
    /\ ledgerTable' = TRUE
    /\ applied_revisions' = ledger
    /\ mi' = 1
    /\ mpc' = "loop"
    /\ runNo' = runNo + 1
    /\ prevOk' = (mpc = "done")
    /\ startSchema' = schema
    /\ startLedger' = ledger
    /\ changes' = 0
    /\ attempted' = {}
    /\ failedAt' = 0
    /\ failStage' = "none"
    /\ UNCHANGED <<schema, ledger, stmts, savepoint>>

\* the loop skips an id found in applied_revisions
SkipApplied ==
    /\ UNCHANGED <<poVars, payVars, invVars, giftVars, jobVars>>
    /\ mpc = "loop"
    /\ mi <= NMig
    /\ IsApplied(MIGRATIONS[mi].id, applied_revisions)
    /\ mi' = mi + 1
    /\ UNCHANGED <<schema, ledgerTable, ledger, mpc, applied_revisions, stmts,
                   savepoint, runNo, prevOk, startSchema, startLedger, changes,
                   attempted, failedAt, failStage>>

\* `with connection.begin_nested():` and the upgrade's inspection of the schema
BeginNested ==
    /\ UNCHANGED <<poVars, payVars, invVars, giftVars, jobVars>>
    /\ mpc = "loop"
    /\ mi <= NMig
    /\ ~IsApplied(MIGRATIONS[mi].id, applied_revisions)
    /\ savepoint' = [schema |-> schema, ledger |-> ledger]
    /\ stmts' = Upgrade(mi, schema)
    /\ attempted' = attempted \cup {mi}
    /\ mpc' = "upgrade"
    /\ UNCHANGED <<schema, ledgerTable, ledger, applied_revisions, mi, runNo,
                   prevOk, startSchema, startLedger, changes, failedAt,
                   failStage>>

\* The nested scope is left by an exception raised at `stage`: rollback to
\* the savepoint, then the except clause.
LeaveByException(stage) ==
    /\ UNCHANGED <<poVars, payVars, invVars, giftVars, jobVars>>
    /\ schema' = NestedRollback(savepoint, [schema |-> schema, ledger |-> ledger]).schema
    /\ ledger' = NestedRollback(savepoint, [schema |-> schema, ledger |-> ledger]).ledger
    /\ mpc' = ExceptClause(mi).pc
    /\ mi' = ExceptClause(mi).i
    /\ failedAt' = mi
    /\ failStage' = stage
    /\ stmts' = <<>>
    /\ UNCHANGED <<ledgerTable, applied_revisions, savepoint, runNo, prevOk,
                   startSchema, startLedger, changes, attempted>>

\* connection.execute(text(stmt)) of the upgrade; creating an element that
\* exists is an error of the database.
ExecStatement ==
    /\ mpc = "upgrade"
    /\ stmts # <<>>
    /\ IF Head(stmts) \in schema
       THEN LeaveByException("upgrade")
       ELSE /\ UNCHANGED <<poVars, payVars, invVars, giftVars, jobVars>>
            /\ schema' = schema \cup {Head(stmts)}
            /\ stmts' = Tail(stmts)
            /\ changes' = changes + 1
            /\ UNCHANGED <<ledgerTable, ledger, mpc, applied_revisions, mi,
                           savepoint, runNo, prevOk, startSchema, startLedger,
                           attempted, failedAt, failStage>>

\* the upgrade raises: at its inspection (nothing executed yet), at its next
\* statement, or before it returns
UpgradeFails ==
    /\ mpc = "upgrade"
    /\ LeaveByException("upgrade")

\* the upgrade returns
UpgradeReturns ==
    /\ UNCHANGED <<poVars, payVars, invVars, giftVars, jobVars>>
    /\ mpc = "upgrade"
    /\ stmts = <<>>
    /\ mpc' = "insert"
    /\ UNCHANGED <<schema, ledgerTable, ledger, applied_revisions, mi, stmts,
                   savepoint, runNo, prevOk, startSchema, startLedger, changes,
                   attempted, failedAt, failStage>>

\* INSERT INTO schema_migrations (id): a second row of the same id violates
\* the primary key; otherwise the scope is released and the loop goes on.
InsertLedgerRow ==
    /\ mpc = "insert"
    /\ IF MIGRATIONS[mi].id \in ledger
       THEN LeaveByException("insert")
       ELSE /\ UNCHANGED <<poVars, payVars, invVars, giftVars, jobVars>>
            /\ ledger' = ledger \cup {MIGRATIONS[mi].id}
            /\ mi' = mi + 1
            /\ mpc' = "loop"
            /\ UNCHANGED <<schema, ledgerTable, applied_revisions, stmts,
                           savepoint, runNo, prevOk, startSchema, startLedger,
                           changes, attempted, failedAt, failStage>>

\* the INSERT of the ledger row raises
InsertFails ==
    /\ mpc = "insert"
    /\ LeaveByException("insert")

\* the for loop is exhausted: the function returns
FinishRun ==
    /\ UNCHANGED <<poVars, payVars, invVars, giftVars, jobVars>>
    /\ mpc = "loop"
    /\ mi > NMig
    /\ mpc' = "done"
    /\ UNCHANGED <<schema, ledgerTable, ledger, applied_revisions, mi, stmts,
                   savepoint, runNo, prevOk, startSchema, startLedger, changes,
                   attempted, failedAt, failStage>>

NextMig ==
    \/ StartRun
    \/ SkipApplied
    \/ BeginNested
    \/ ExecStatement
    \/ UpgradeFails
    \/ UpgradeReturns
    \/ InsertLedgerRow
    \/ InsertFails
    \/ FinishRun

(***************************************************************************)
(* bot/handlers/user/referral.py and db/dal/payout_dal.py                  *)
(*                                                                         *)
(* The database is PostgreSQL (pg_insert) at its default isolation level:  *)
(* a session reads committed rows and its own writes, an UPDATE of a row   *)
(* waits while another session holds an uncommitted UPDATE of that row.    *)
(* The handler never commits: the session it is handed is committed when   *)
(* the handler returns and rolled back when it raises.                     *)
(***************************************************************************)
Users == {1, 2}
Requests == 1..MaxRequests

\* Texts are sequences of one-character strings.
RECURSIVE LStrip(_)
LStrip(t) == IF t # <<>> /\ Head(t) = " " THEN LStrip(Tail(t)) ELSE t

RECURSIVE RStrip(_)
RStrip(t) ==
    IF t # <<>> /\ t[Len(t)] = " " THEN RStrip(SubSeq(t, 1, Len(t) - 1)) ELSE t

\* str.strip()
Strip(t) == RStrip(LStrip(t))

\* t holds the characters of sub in a row
Contains(t, sub) ==
    \E i \in 1..(Len(t) - Len(sub) + 1) : SubSeq(t, i, i + Len(sub) - 1) = sub

MAX_PROMO_CODE_INPUT_LENGTH == 100

\* SUSPICIOUS_CHARS_REGEX.search: (--|#\s|;|\*\/|\/\*)
SuspiciousChars(t) ==
    \/ Contains(t, <<"-", "-">>)
    \/ Contains(t, <<"#", " ">>)
    \/ Contains(t, <<";">>)
    \/ Contains(t, <<"*", "/">>)
    \/ Contains(t, <<"/", "*">>)

\* message texts a user submits. They hold no letter, so that
\* SUSPICIOUS_SQL_KEYWORDS_REGEX, every alternative of which holds letters,
\* matches none of them.
Texts == {<<"4", "2">>, <<" ", "4", "2">>, <<" ", ";">>}

\* is_suspicious of lines 200-211, for the texts above
is_suspicious(code_input) ==
    \/ code_input = <<>>
    \/ Len(code_input) > MAX_PROMO_CODE_INPUT_LENGTH
    \/ SuspiciousChars(code_input)

\* `if db_user.balance < 1000`
PayoutThreshold == 1000

\* balances a user can have accrued before the payout dialog is opened
InitBalances == {999, 1000}

\* Python's None, as a row
None == [payout_id |-> 0]

EmptySession == [zeroed |-> FALSE, rows |-> {}]

PoTerminal == {"done", "failed", "notify_failed", "unbound"}

InFlight(q) == rpc[q] \notin (PoTerminal \cup {"idle"})

\* another session holds an uncommitted UPDATE of user u's row
RowLocked(u, r) ==
    \E q \in Requests \ {r} : ruser[q] = u /\ rsess[q].zeroed

\* user_dal.get_user_by_id(session, user.id).balance
VisibleBalance(r) ==
    IF rsess[r].zeroed THEN 0 ELSE balance[ruser[r]]

\* session.commit(): the session's writes become the committed rows
CommitSession(db, s, u, r) ==
    [balance     |-> IF s.zeroed THEN [db.balance EXCEPT ![u] = 0] ELSE db.balance,
     payouts     |-> db.payouts \cup s.rows,
     zeroCommits |-> IF s.zeroed THEN db.zeroCommits \cup {r} ELSE db.zeroCommits]

\* create_payout with a `session.commit()` after the insert
create_payout_commits(db, s, payout_data, id, u, r) ==
    LET row == [payout_data EXCEPT
                  !.payout_id = id,
                  !.created_at = IF @ = "" THEN "utcnow" ELSE @]
    IN  [db      |-> CommitSession(db, [s EXCEPT !.rows = @ \cup {row}], u, r),
         sess    |-> EmptySession,
         payout  |-> row,
         created |-> TRUE]

\* payout_dal.create_payout: INSERT ... ON CONFLICT (payout_id) DO NOTHING
\* RETURNING payout_id, with payout_id drawn from the serial (id); then
\* get_payout_by_id. Returns the payout and the created flag, and leaves
\* the insert in the session.
create_payout(db, s, payout_data, id, u, r) ==
    LET row == [payout_data EXCEPT
                  !.payout_id = id,
                  !.created_at = IF @ = "" THEN "utcnow" ELSE @]
        conflict == \E p \in db.payouts \cup s.rows : p.payout_id = id
    IN  IF conflict
        THEN [db |-> db, sess |-> s, payout |-> None, created |-> FALSE]
        ELSE [db      |-> db,
              sess    |-> [s EXCEPT !.rows = @ \cup {row}],
              payout  |-> row,
              created |-> TRUE]

RowsOf(u) == {p \in payouts : p.user_id = u}

\* sum of the requested amounts of a set of payout rows
RECURSIVE SumPrices(_)
SumPrices(rows) ==
    IF rows = {} THEN 0
    ELSE LET p == CHOOSE x \in rows : TRUE
         IN  p.price + SumPrices(rows \ {p})

PoHistoryInit ==
    /\ credited = balance
    /\ zeroCommits = {}
    /\ overlapped = {}
    /\ notified = {}

PoCallsInit ==
    /\ payouts = {}
    /\ payoutSeq = 0
    /\ fsm = [u \in Users |-> "none"]
    /\ rpc = [r \in Requests |-> "idle"]
    /\ ruser = [r \in Requests |-> 0]
    /\ rbalance = [r \in Requests |-> 0]
    /\ rpayout = [r \in Requests |-> None]
    /\ rsess = [r \in Requests |-> EmptySession]
    /\ rtext = [r \in Requests |-> <<>>]

PoIdle ==
    /\ balance = [u \in Users |-> 0]
    /\ PoCallsInit
    /\ PoHistoryInit

PoFresh ==
    /\ balance \in [Users -> InitBalances]
    /\ PoCallsInit
    /\ PoHistoryInit

\* referral_action_handler, action "get_payout": state.clear(), then the
\* threshold check, then prompt_get_requisites_handler sets the state.
OpenDialog(u) ==
    /\ UNCHANGED <<migVars, payVars, invVars, giftVars, jobVars>>
    /\ fsm' = [fsm EXCEPT ![u] =
                 IF balance[u] < PayoutThreshold THEN "none" ELSE "waiting"]
    /\ UNCHANGED <<balance, payouts, payoutSeq, rpc, ruser, rbalance, rpayout,
                   rsess, credited, zeroCommits, overlapped, rtext, notified>>

\* a text message of user u is routed to process_requisites_input (the
\* filter UserGetRequisites.waiting_for_requisites holds); lines 197-214.
\* Calls are numbered in the order they arrive.
Submit(r, u, text) ==
    /\ UNCHANGED <<migVars, payVars, invVars, giftVars, jobVars>>
    /\ rpc[r] = "idle"
    /\ \A q \in Requests : q < r => rpc[q] # "idle"
    /\ fsm[u] = "waiting"
    /\ rtext' = [rtext EXCEPT ![r] = text]
    /\ rpc' = [rpc EXCEPT ![r] =
                 IF is_suspicious(Strip(text)) THEN "reject" ELSE "read"]
    /\ ruser' = [ruser EXCEPT ![r] = u]
    /\ overlapped' =
         LET others == {q \in Requests \ {r} : InFlight(q) /\ ruser[q] = u}
         IN  IF others = {} THEN overlapped ELSE overlapped \cup others \cup {r}
    /\ UNCHANGED <<balance, payouts, payoutSeq, fsm, rbalance, rpayout, rsess,
                   credited, zeroCommits, notified>>

\* the branch of suspicious input: the failure text is sent (lines 215-229,
\* 258-268), state.clear(), and the log call of line 270 reads new_payout,
\* which this branch never binds: the exception leaves the handler
RejectReply(r) ==
    /\ UNCHANGED <<migVars, payVars, invVars, giftVars, jobVars>>
    /\ rpc[r] = "reject"
    /\ fsm' = [fsm EXCEPT ![ruser[r]] = "none"]
    /\ rsess' = [rsess EXCEPT ![r] = EmptySession]
    /\ rpc' = [rpc EXCEPT ![r] = "unbound"]
    /\ UNCHANGED <<balance, payouts, payoutSeq, ruser, rbalance, rpayout,
                   credited, zeroCommits, overlapped, rtext, notified>>

\* db_user = get_user_by_id(...); balance = db_user.balance
ReadBalance(r) ==
    /\ UNCHANGED <<migVars, payVars, invVars, giftVars, jobVars>>
    /\ rpc[r] = "read"
    /\ rbalance' = [rbalance EXCEPT ![r] = VisibleBalance(r)]
    /\ rpc' = [rpc EXCEPT ![r] = "zero"]
    /\ UNCHANGED <<balance, payouts, payoutSeq, fsm, ruser, rpayout, rsess,
                   credited, zeroCommits, overlapped, rtext, notified>>

\* user_dal.update_user(session, user.id, {"balance": 0})
ZeroBalance(r) ==
    /\ UNCHANGED <<migVars, payVars, invVars, giftVars, jobVars>>
    /\ rpc[r] = "zero"
    /\ ~RowLocked(ruser[r], r)
    /\ rsess' = [rsess EXCEPT ![r].zeroed = TRUE]
    /\ rpc' = [rpc EXCEPT ![r] = "insert"]
    /\ UNCHANGED <<balance, payouts, payoutSeq, fsm, ruser, rbalance, rpayout,
                   credited, zeroCommits, overlapped, rtext, notified>>

\* a payout_data built after the zeroing from the balance as it is then
payout_data_zero(user_id, balance_read, code_input, r) ==
    [payout_id  |-> 0,
     user_id    |-> user_id,
     price      |-> 0,
     requisites |-> code_input,
     status     |-> "created",
     created_at |-> "",
     by         |-> r]

\* payout_data of lines 236-241 (it holds no created_at); `by` names the
\* call the row comes from
payout_data(user_id, balance_read, code_input, r) ==
    [payout_id  |-> 0,
     user_id    |-> user_id,
     price      |-> balance_read,
     requisites |-> code_input,
     status     |-> "created",
     created_at |-> "",
     by         |-> r]

\* payout_data = {...}; new_payout, was_created = create_payout(...)
InsertPayout(r) ==
    /\ UNCHANGED <<migVars, payVars, invVars, giftVars, jobVars>>
    /\ rpc[r] = "insert"
    /\ LET res == create_payout(
                    [balance |-> balance, payouts |-> payouts,
                     zeroCommits |-> zeroCommits],
                    rsess[r],
                    payout_data(ruser[r], rbalance[r], Strip(rtext[r]), r),
                    payoutSeq + 1, ruser[r], r)
       IN  /\ balance' = res.db.balance
           /\ payouts' = res.db.payouts
           /\ zeroCommits' = res.db.zeroCommits
           /\ rsess' = [rsess EXCEPT ![r] = res.sess]
           /\ rpayout' = [rpayout EXCEPT ![r] = res.payout]
    /\ payoutSeq' = payoutSeq + 1
    /\ rpc' = [rpc EXCEPT ![r] = "notify"]
    /\ UNCHANGED <<fsm, ruser, rbalance, credited, overlapped, rtext,
                   notified>>

\* notification_service.notify_new_payout(payout_id=new_payout.payout_id, ...)
\* is awaited and returns
Notify(r) ==
    /\ UNCHANGED <<migVars, payVars, invVars, giftVars, jobVars>>
    /\ rpc[r] = "notify"
    /\ rpayout[r] # None
    /\ notified' = notified \cup {r}
    /\ rpc' = [rpc EXCEPT ![r] = "reply"]
    /\ UNCHANGED <<balance, payouts, payoutSeq, fsm, ruser, rbalance, rpayout,
                   rsess, credited, zeroCommits, overlapped, rtext>>

\* notify_new_payout raises (or new_payout is None and
\* `new_payout.payout_id` raises): the call is awaited outside any try, the
\* exception leaves the handler and its session is rolled back
NotifyFails(r) ==
    /\ UNCHANGED <<migVars, payVars, invVars, giftVars, jobVars>>
    /\ rpc[r] = "notify"
    /\ rsess' = [rsess EXCEPT ![r] = EmptySession]
    /\ rbalance' = [rbalance EXCEPT ![r] = 0]
    /\ rpayout' = [rpayout EXCEPT ![r] = None]
    /\ rtext' = [rtext EXCEPT ![r] = <<>>]
    /\ rpc' = [rpc EXCEPT ![r] = "notify_failed"]
    /\ UNCHANGED <<balance, payouts, payoutSeq, fsm, ruser, credited,
                   zeroCommits, overlapped, notified>>

\* message.answer(...) / answer_photo(...), then state.clear()
Reply(r) ==
    /\ UNCHANGED <<migVars, payVars, invVars, giftVars, jobVars>>
    /\ rpc[r] = "reply"
    /\ fsm' = [fsm EXCEPT ![ruser[r]] = "none"]
    /\ rpc' = [rpc EXCEPT ![r] = "commit"]
    /\ UNCHANGED <<balance, payouts, payoutSeq, ruser, rbalance, rpayout,
                   rsess, credited, zeroCommits, overlapped, rtext, notified>>

\* the handler has returned: its session is committed
CommitRequest(r) ==
    /\ UNCHANGED <<migVars, payVars, invVars, giftVars, jobVars>>
    /\ rpc[r] = "commit"
    /\ LET db == CommitSession(
                   [balance |-> balance, payouts |-> payouts,
                    zeroCommits |-> zeroCommits],
                   rsess[r], ruser[r], r)
       IN  /\ balance' = db.balance
           /\ payouts' = db.payouts
           /\ zeroCommits' = db.zeroCommits
    /\ rsess' = [rsess EXCEPT ![r] = EmptySession]
    /\ rpc' = [rpc EXCEPT ![r] = "done"]
    /\ UNCHANGED <<payoutSeq, fsm, ruser, rbalance, rpayout, credited,
                   overlapped, rtext, notified>>

\* A database call, the reply or the commit raises (the
\* handler has no try around them): the exception leaves the handler, whose
\* locals and message are gone, and its session is rolled back.
RequestFails(r) ==
    /\ UNCHANGED <<migVars, payVars, invVars, giftVars, jobVars>>
    /\ rpc[r] \in {"read", "zero", "insert", "reply", "commit", "reject"}
    /\ rsess' = [rsess EXCEPT ![r] = EmptySession]
    /\ rbalance' = [rbalance EXCEPT ![r] = 0]
    /\ rpayout' = [rpayout EXCEPT ![r] = None]
    /\ rtext' = [rtext EXCEPT ![r] = <<>>]
    /\ rpc' = [rpc EXCEPT ![r] = "failed"]
    /\ UNCHANGED <<balance, payouts, payoutSeq, fsm, ruser, credited,
                   zeroCommits, overlapped, notified>>

NextPayout ==
    \/ \E u \in Users : OpenDialog(u)
    \/ \E r \in Requests, u \in Users, text \in Texts : Submit(r, u, text)
    \/ \E r \in Requests : RejectReply(r)
    \/ \E r \in Requests : ReadBalance(r)
    \/ \E r \in Requests : ZeroBalance(r)
    \/ \E r \in Requests : InsertPayout(r)
    \/ \E r \in Requests : Notify(r)
    \/ \E r \in Requests : NotifyFails(r)
    \/ \E r \in Requests : Reply(r)
    \/ \E r \in Requests : CommitRequest(r)
    \/ \E r \in Requests : RequestFails(r)

(***************************************************************************)
(* bot/services/crypto_pay_service.py: the bonus days of a gift code       *)
(* (lines 167-170), with the arithmetic of datetime.date it uses: dates    *)
(* are counted in days from 0001-01-01 (the proleptic Gregorian ordinal).  *)
(***************************************************************************)
Date(y, m, d) == [year |-> y, month |-> m, day |-> d]

IsLeap(y) == (y % 4 = 0 /\ y % 100 # 0) \/ y % 400 = 0

\* number of days before January 1st of year y
DaysBeforeYear(y) ==
    LET p == y - 1
    IN  p * 365 + (p \div 4) - (p \div 100) + (p \div 400)

\* number of days of year y before the first day of month m
DaysBeforeMonth(y, m) ==
    LET common == <<0, 31, 59, 90, 120, 151, 181, 212, 243, 273, 304, 334>>
    IN  common[m] + (IF m > 2 /\ IsLeap(y) THEN 1 ELSE 0)

\* date.toordinal()
ToOrdinal(dt) ==
    DaysBeforeYear(dt.year) + DaysBeforeMonth(dt.year, dt.month) + dt.day

\* date.fromordinal(n)
FromOrdinal(n) ==
    LET y == CHOOSE yy \in (n \div 366)..(n \div 365 + 1) :
                 DaysBeforeYear(yy) < n /\ n <= DaysBeforeYear(yy + 1)
        r == n - DaysBeforeYear(y)
        m == CHOOSE mm \in 1..12 :
                 /\ DaysBeforeMonth(y, mm) < r
                 /\ (mm = 12 \/ r <= DaysBeforeMonth(y, mm + 1))
    IN  Date(y, m, r - DaysBeforeMonth(y, m))

\* dt - timedelta(days=n)
MinusDays(dt, n) == FromOrdinal(ToOrdinal(dt) - n)

\* the computation with the year of today kept for the target month
last_day_no_carry(today, months) ==
    LET new_month == ((today.month - 1 + months) % 12) + 1
        new_year  == today.year
    IN  MinusDays(Date(new_year + (IF new_month = 12 THEN 1 ELSE 0),
                       (new_month % 12) + 1, 1), 1).day

\* new_month, new_year and last_day of lines 168-170
last_day(today, months) ==
    LET new_month == ((today.month - 1 + months) % 12) + 1
        new_year  == today.year + ((today.month - 1 + months) \div 12)
    IN  MinusDays(Date(new_year + (IF new_month = 12 THEN 1 ELSE 0),
                       (new_month % 12) + 1, 1), 1).day

\* the dates and month counts the computation is explored for
GiftYears == {1999, 2000, 2023, 2024, 2099, 2100}
GiftDates == {Date(y, m, 15) : y \in GiftYears, m \in 1..12}
GiftMonths == 1..MaxGiftMonths

GiftIdle ==
    /\ gtoday = Date(2024, 1, 15)
    /\ gmonths = 1
    /\ gbonus = 0
    /\ gpc = "ready"

GiftFresh ==
    /\ gtoday \in GiftDates
    /\ gmonths \in GiftMonths
    /\ gbonus = 0
    /\ gpc = "ready"

\* the gift branch computes the bonus days of its code
ComputeBonusDays ==
    /\ UNCHANGED <<migVars, poVars, payVars, invVars, jobVars>>
    /\ gpc = "ready"
    /\ gbonus' = last_day(gtoday, gmonths)
    /\ gpc' = "issued"
    /\ UNCHANGED <<gtoday, gmonths>>

NextGift == ComputeBonusDays

(***************************************************************************)
(* bot/services/crypto_pay_service.py: _invoice_paid_handler               *)
(*                                                                         *)
(* Every call opens a session of its own (async_session_factory()); the    *)
(* database is the PostgreSQL of the payout tables. The bodies of          *)
(* payment_dal, promo_code_dal and subscription_service are not part of    *)
(* the sources at hand: they are modelled by what their names and call     *)
(* sites say (an unconditional write of the status, an insert, an          *)
(* activation recorded through the session).                               *)
(***************************************************************************)
Deliveries == 1..MaxDeliveries
PaymentIds == {1, 2}

Digits == {"0", "1", "2", "3", "4", "5", "6", "7", "8", "9"}

DigitVal(c) ==
    CASE c = "0" -> 0 [] c = "1" -> 1 [] c = "2" -> 2 [] c = "3" -> 3
      [] c = "4" -> 4 [] c = "5" -> 5 [] c = "6" -> 6 [] c = "7" -> 7
      [] c = "8" -> 8 [] OTHER -> 9

Unsigned(t) == IF t # <<>> /\ Head(t) \in {"-", "+"} THEN Tail(t) ELSE t

\* int(text) of Python does not raise ValueError: optional surrounding
\* blanks, an optional sign, then one or more decimal digits
IsIntLiteral(text) ==
    LET body == Unsigned(RStrip(LStrip(text)))
    IN  body # <<>> /\ \A i \in 1..Len(body) : body[i] \in Digits

RECURSIVE DigitsValue(_)
DigitsValue(t) ==
    IF t = <<>> THEN 0
    ELSE 10 * DigitsValue(SubSeq(t, 1, Len(t) - 1)) + DigitVal(t[Len(t)])

\* int(text), for a text that IsIntLiteral
IntOf(text) ==
    LET t == RStrip(LStrip(text))
    IN  IF t # <<>> /\ Head(t) = "-"
        THEN 0 - DigitsValue(Unsigned(t))
        ELSE DigitsValue(Unsigned(t))

Field(text) == [present |-> TRUE, text |-> text]
Missing == [present |-> FALSE, text |-> <<>>]

\* invoice.payload values the provider can deliver: nothing, text that is
\* no JSON object, or an object of string fields
UserIdFields == {Missing, Field(<<"1">>), Field(<<"a">>)}
MonthsFields == {Missing, Field(<<"1">>), Field(<<"1", ".", "5">>)}
PaymentIdFields ==
    {Missing, Field(<<"1">>), Field(<<"2">>), Field(<<" ", "1">>),
     Field(<<"3">>), Field(<<"a", "b", "c">>), Field(<<>>), Field(<<"-">>)}

Payloads ==
    [kind : {"empty", "badjson"}, user_id : {Missing},
     subscription_months : {Missing}, payment_db_id : {Missing}]
      \cup
    [kind : {"object"}, user_id : UserIdFields,
     subscription_months : MonthsFields, payment_db_id : PaymentIdFields]

NoMeta == [user_id |-> 0, months |-> 0, payment_db_id |-> 0]

\* the try block with a payment_db_id that is not checked to be a number
ParsePayloadLenient(pl) ==
    IF pl.kind # "object" THEN [ok |-> FALSE, meta |-> NoMeta]
    ELSE IF ~pl.user_id.present \/ ~IsIntLiteral(pl.user_id.text)
         THEN [ok |-> FALSE, meta |-> NoMeta]
    ELSE IF ~pl.subscription_months.present
              \/ ~IsIntLiteral(pl.subscription_months.text)
         THEN [ok |-> FALSE, meta |-> NoMeta]
    ELSE [ok   |-> TRUE,
          meta |-> [user_id       |-> IntOf(pl.user_id.text),
                    months        |-> IntOf(pl.subscription_months.text),
                    payment_db_id |->
                        IF pl.payment_db_id.present
                           /\ IsIntLiteral(pl.payment_db_id.text)
                        THEN IntOf(pl.payment_db_id.text) ELSE 1]]

\* `if not invoice.payload: return`, then json.loads and the three int(...)
\* in their try block: any exception returns
ParsePayload(pl) ==
    IF pl.kind = "empty" THEN [ok |-> FALSE, meta |-> NoMeta]
    ELSE IF pl.kind = "badjson" THEN [ok |-> FALSE, meta |-> NoMeta]
    ELSE IF ~pl.user_id.present \/ ~IsIntLiteral(pl.user_id.text)
         THEN [ok |-> FALSE, meta |-> NoMeta]
    ELSE IF ~pl.subscription_months.present
              \/ ~IsIntLiteral(pl.subscription_months.text)
         THEN [ok |-> FALSE, meta |-> NoMeta]
    ELSE IF ~pl.payment_db_id.present \/ ~IsIntLiteral(pl.payment_db_id.text)
         THEN [ok |-> FALSE, meta |-> NoMeta]
    ELSE [ok   |-> TRUE,
          meta |-> [user_id       |-> IntOf(pl.user_id.text),
                    months        |-> IntOf(pl.subscription_months.text),
                    payment_db_id |-> IntOf(pl.payment_db_id.text)]]

\* What is wrong with a payload, in the words of the interface: "empty",
\* "badjson", "missing" (a required field is absent), "non_numeric" (a
\* field is present and is no number), or "" when nothing is.
PayloadDefect(pl) ==
    LET fields == {pl.user_id, pl.subscription_months, pl.payment_db_id}
    IN  IF pl.kind # "object" THEN pl.kind
        ELSE IF \E f \in fields : ~f.present THEN "missing"
        ELSE IF \E f \in fields : ~IsIntLiteral(f.text) THEN "non_numeric"
        ELSE ""

\* What the handler makes of each payload, beside what is wrong with it.
PayloadOutcomes ==
    {[why |-> PayloadDefect(pl), parsed |-> ParsePayload(pl)] : pl \in Payloads}

NoPayment == [status |-> "", is_gift |-> FALSE]

EmptyTx == [writes |-> {}, promos |-> {}, acts |-> {}]

DTerminal == {"dropped", "raised", "failed", "msg_failed", "msg_raised",
              "done"}

DInFlight(e) == dpc[e] \notin (DTerminal \cup {"new"})

\* payment_dal.update_provider_payment_and_status: the row's new content
update_provider_payment_and_status(rec, new_status) ==
    [rec EXCEPT !.status = new_status]

\* another session holds an uncommitted UPDATE of payment p
PaymentLocked(p, d) ==
    \E e \in Deliveries \ {d} : \E w \in dsess[e].writes : w.payment_id = p

\* payment_dal.get_payment_by_db_id through session d: the committed row
\* overlaid with the session's own write, None for an unknown id
VisiblePayment(p, d) ==
    IF p \notin PaymentIds THEN NoPayment
    ELSE IF \E w \in dsess[d].writes : w.payment_id = p
         THEN update_provider_payment_and_status(payments[p], "succeeded")
         ELSE payments[p]

PayHistoryInit ==
    /\ dwhy = [d \in Deliveries |-> ""]
    /\ statusCommits = {}
    /\ invoked = {}
    /\ sent = {}
    /\ tried = {}
    /\ doneBefore = [d \in Deliveries |-> {}]
    /\ doverlap = {}

PayCallsInit ==
    /\ promo_codes = {}
    /\ activations = {}
    /\ dpc = [d \in Deliveries |-> "new"]
    /\ dmeta = [d \in Deliveries |-> NoMeta]
    /\ dpayment = [d \in Deliveries |-> NoPayment]
    /\ dsess = [d \in Deliveries |-> EmptyTx]

\* statuses of a payment record whose invoice exists at the provider:
\* "pending_cryptopay" as written by create_invoice, or str(invoice.status)
\* of the created invoice, "active", written by its follow-up update
PendingStatuses == {"pending_cryptopay", "active"}

PayIdle ==
    /\ payments = [p \in PaymentIds |-> NoPayment]
    /\ PayCallsInit
    /\ PayHistoryInit

\* days on which a delivery is handled
PayDates == {Date(2023, 12, 15), Date(2024, 1, 15)}

\* payment 1 is an ordinary purchase, payment 2 a gift
PayFresh ==
    /\ payments \in [PaymentIds -> [status : PendingStatuses, is_gift : BOOLEAN]]
    /\ ~payments[1].is_gift
    /\ payments[2].is_gift
    /\ PayCallsInit
    /\ PayHistoryInit

\* The handler is called with an update whose payload has outcome o:
\* lines 133-144. Calls are numbered in the order they arrive.
Receive(d, o) ==
    /\ UNCHANGED <<migVars, poVars, invVars, giftVars, jobVars>>
    /\ dpc[d] = "new"
    /\ \A e \in Deliveries : e < d => dpc[e] # "new"
    /\ dwhy' = [dwhy EXCEPT ![d] = o.why]
    /\ doneBefore' = [doneBefore EXCEPT ![d] =
                        {e \in statusCommits : dpc[e] = "done"}]
    /\ LET others == {e \in Deliveries \ {d} :
                         /\ DInFlight(e)
                         /\ dmeta[e].payment_db_id = o.parsed.meta.payment_db_id}
       IN  IF o.parsed.ok
           THEN /\ dpc' = [dpc EXCEPT ![d] = "get_user"]
                /\ dmeta' = [dmeta EXCEPT ![d] = o.parsed.meta]
                /\ doverlap' = IF others = {} THEN doverlap
                               ELSE doverlap \cup others \cup {d}
           ELSE /\ dpc' = [dpc EXCEPT ![d] = "dropped"]
                /\ dmeta' = dmeta
                /\ doverlap' = doverlap
    /\ UNCHANGED <<payments, promo_codes, activations, dpayment, dsess,
                   statusCommits, invoked, sent, tried>>

\* db_user = user_dal.get_user_by_id(session, user_id), before the try
GetUser(d) ==
    /\ UNCHANGED <<migVars, poVars, invVars, giftVars, jobVars>>
    /\ dpc[d] = "get_user"
    /\ dpc' = [dpc EXCEPT ![d] = "update"]
    /\ UNCHANGED <<payments, promo_codes, activations, dmeta, dpayment, dsess,
                   dwhy, statusCommits, invoked, sent, tried, doneBefore, doverlap>>

\* that query raises: the exception leaves the handler
GetUserFails(d) ==
    /\ UNCHANGED <<migVars, poVars, invVars, giftVars, jobVars>>
    /\ dpc[d] = "get_user"
    /\ dpc' = [dpc EXCEPT ![d] = "raised"]
    /\ UNCHANGED <<payments, promo_codes, activations, dmeta, dpayment, dsess,
                   dwhy, statusCommits, invoked, sent, tried, doneBefore, doverlap>>

\* update_provider_payment_and_status(session, payment_db_id, ..., "succeeded")
UpdateStatus(d) ==
    /\ UNCHANGED <<migVars, poVars, invVars, giftVars, jobVars>>
    /\ dpc[d] = "update"
    /\ ~PaymentLocked(dmeta[d].payment_db_id, d)
    /\ dsess' = [dsess EXCEPT ![d].writes =
                   IF dmeta[d].payment_db_id \in PaymentIds
                   THEN @ \cup {[payment_id |-> dmeta[d].payment_db_id,
                                 status |-> "succeeded"]}
                   ELSE @]
    /\ dpc' = [dpc EXCEPT ![d] = "get_payment"]
    /\ UNCHANGED <<payments, promo_codes, activations, dmeta, dpayment, dwhy,
                   statusCommits, invoked, sent, tried, doneBefore, doverlap>>

\* the rows after session d has committed what it holds
CommittedBy(d) ==
    [payments |->
        [p \in PaymentIds |->
            IF \E w \in dsess[d].writes : w.payment_id = p
            THEN update_provider_payment_and_status(payments[p], "succeeded")
            ELSE payments[p]],
     promo_codes   |-> promo_codes \cup dsess[d].promos,
     activations   |-> activations \cup dsess[d].acts,
     statusCommits |-> IF dsess[d].writes # {} THEN statusCommits \cup {d}
                       ELSE statusCommits]

\* where the handler is after its except clause has returned: "failed"
\* when the exception came before the commit, "msg_failed" when it came
\* from the send_message that follows the commit of the gift branch
AfterExcept(d) == IF dpc[d] = "gift_msg" THEN "msg_failed" ELSE "failed"

\* an except clause that commits what the session holds
ExceptCommits(d) ==
    /\ payments' = CommittedBy(d).payments
    /\ promo_codes' = CommittedBy(d).promo_codes
    /\ activations' = CommittedBy(d).activations
    /\ statusCommits' = CommittedBy(d).statusCommits
    /\ dsess' = [dsess EXCEPT ![d] = EmptyTx]
    /\ dpc' = [dpc EXCEPT ![d] = AfterExcept(d)]

\* an except clause that returns without ending the session's transaction
ExceptKeepsTransaction(d) ==
    /\ UNCHANGED <<payments, promo_codes, activations, statusCommits, dsess>>
    /\ dpc' = [dpc EXCEPT ![d] = AfterExcept(d)]

\* The except clause of the handler: session.rollback(), log, return.
ExceptRollback(d) ==
    /\ UNCHANGED <<payments, promo_codes, activations, statusCommits>>
    /\ dsess' = [dsess EXCEPT ![d] = EmptyTx]
    /\ dpc' = [dpc EXCEPT ![d] = AfterExcept(d)]

\* a handler that takes the activation branch for every payment
BranchAlwaysActivates(payment) == "activate"

\* `if payment.is_gift:` chooses the gift branch, else the activation
Branch(payment) == IF payment.is_gift THEN "promo" ELSE "activate"

\* payment = get_payment_by_db_id(...); `payment.is_gift` raises on None
GetPayment(d) ==
    /\ UNCHANGED <<migVars, poVars, invVars, giftVars, jobVars>>
    /\ dpc[d] = "get_payment"
    /\ LET payment == VisiblePayment(dmeta[d].payment_db_id, d)
       IN  IF payment = NoPayment
           THEN /\ ExceptRollback(d)
                /\ dpayment' = dpayment
           ELSE /\ dpayment' = [dpayment EXCEPT ![d] = payment]
                /\ dpc' = [dpc EXCEPT ![d] = Branch(payment)]
                /\ UNCHANGED <<payments, promo_codes, activations,
                               statusCommits, dsess>>
    /\ UNCHANGED <<dmeta, dwhy, invoked, sent, tried, doneBefore, doverlap>>

\* today = date.today() ... promo_data = {...};
\* created_promo = promo_code_dal.create_promo_code(session, promo_data)
CreatePromo(d, today) ==
    /\ UNCHANGED <<migVars, poVars, invVars, giftVars, jobVars>>
    /\ dpc[d] = "promo"
    /\ dsess' = [dsess EXCEPT ![d].promos =
                   @ \cup {[bonus_days          |-> last_day(today, dmeta[d].months),
                            max_activations     |-> 1,
                            current_activations |-> 0,
                            is_active           |-> TRUE,
                            payment_id          |-> dmeta[d].payment_db_id,
                            by                  |-> d]}]
    /\ dpc' = [dpc EXCEPT ![d] = "commit_gift"]
    /\ UNCHANGED <<payments, promo_codes, activations, dmeta, dpayment, dwhy,
                   statusCommits, invoked, sent, tried, doneBefore, doverlap>>

\* activation = subscription_service.activate_subscription(session, ...)
Activate(d) ==
    /\ UNCHANGED <<migVars, poVars, invVars, giftVars, jobVars>>
    /\ dpc[d] = "activate"
    /\ dsess' = [dsess EXCEPT ![d].acts =
                   @ \cup {[user_id    |-> dmeta[d].user_id,
                            months     |-> dmeta[d].months,
                            payment_id |-> dmeta[d].payment_db_id,
                            by         |-> d]}]
    /\ invoked' = invoked \cup {d}
    /\ dpc' = [dpc EXCEPT ![d] = "commit"]
    /\ UNCHANGED <<payments, promo_codes, activations, dmeta, dpayment, dwhy,
                   statusCommits, sent, tried, doneBefore, doverlap>>

\* session.commit() of either branch
CommitDelivery(d) ==
    /\ UNCHANGED <<migVars, poVars, invVars, giftVars, jobVars>>
    /\ dpc[d] \in {"commit_gift", "commit"}
    /\ payments' = CommittedBy(d).payments
    /\ promo_codes' = CommittedBy(d).promo_codes
    /\ activations' = CommittedBy(d).activations
    /\ statusCommits' = CommittedBy(d).statusCommits
    /\ dsess' = [dsess EXCEPT ![d] = EmptyTx]
    /\ dpc' = [dpc EXCEPT ![d] =
                 IF dpc[d] = "commit_gift" THEN "gift_msg" ELSE "msg"]
    /\ UNCHANGED <<dmeta, dpayment, dwhy, invoked, sent, tried, doneBefore, doverlap>>

\* a call inside the try raises before the commit has happened
DeliveryFails(d) ==
    /\ UNCHANGED <<migVars, poVars, invVars, giftVars, jobVars>>
    /\ dpc[d] \in {"update", "get_payment", "promo", "commit_gift",
                   "activate", "commit"}
    /\ ExceptRollback(d)
    /\ UNCHANGED <<dmeta, dpayment, dwhy, invoked, sent, tried, doneBefore, doverlap>>

\* gift branch: bot.send_message(user_id, text) inside the try
SendGiftMessage(d) ==
    /\ UNCHANGED <<migVars, poVars, invVars, giftVars, jobVars>>
    /\ dpc[d] = "gift_msg"
    /\ sent' = sent \cup {<<d, "user">>}
    /\ tried' = tried \cup {<<d, "user">>}
    /\ dpc' = [dpc EXCEPT ![d] = "gift_notify"]
    /\ UNCHANGED <<payments, promo_codes, activations, dmeta, dpayment, dsess,
                   dwhy, statusCommits, invoked, doneBefore, doverlap>>

\* that send raises: the except clause of the handler runs after the commit
GiftMessageFails(d) ==
    /\ UNCHANGED <<migVars, poVars, invVars, giftVars, jobVars>>
    /\ dpc[d] = "gift_msg"
    /\ ExceptRollback(d)
    /\ tried' = tried \cup {<<d, "user">>}
    /\ UNCHANGED <<dmeta, dpayment, dwhy, invoked, sent, doneBefore, doverlap>>

\* lines 222-231 with an activation that holds no end_date (the case line
\* 224 provides for): final_end.strftime raises outside every try, and the
\* exception leaves the handler
BuildMessageFails(d) ==
    /\ UNCHANGED <<migVars, poVars, invVars, giftVars, jobVars>>
    /\ dpc[d] = "msg"
    /\ dpc' = [dpc EXCEPT ![d] = "msg_raised"]
    /\ UNCHANGED <<payments, promo_codes, activations, dmeta, dpayment, dsess,
                   dwhy, statusCommits, invoked, sent, tried, doneBefore,
                   doverlap>>

\* the user message of the other branch, in its own try: sent, or failed
\* and logged
SendMessage(d, ok) ==
    /\ UNCHANGED <<migVars, poVars, invVars, giftVars, jobVars>>
    /\ dpc[d] = "msg"
    /\ sent' = IF ok THEN sent \cup {<<d, "user">>} ELSE sent
    /\ tried' = tried \cup {<<d, "user">>}
    /\ dpc' = [dpc EXCEPT ![d] = "notify"]
    /\ UNCHANGED <<payments, promo_codes, activations, dmeta, dpayment, dsess,
                   dwhy, statusCommits, invoked, doneBefore, doverlap>>

\* notify_payment_received of either branch, in its own try: sent, or
\* failed and logged
NotifyPayment(d, ok) ==
    /\ UNCHANGED <<migVars, poVars, invVars, giftVars, jobVars>>
    /\ dpc[d] \in {"gift_notify", "notify"}
    /\ sent' = IF ok THEN sent \cup {<<d, "admin">>} ELSE sent
    /\ tried' = tried \cup {<<d, "admin">>}
    /\ dpc' = [dpc EXCEPT ![d] = "done"]
    /\ UNCHANGED <<payments, promo_codes, activations, dmeta, dpayment, dsess,
                   dwhy, statusCommits, invoked, doneBefore, doverlap>>

NextPay ==
    \/ \E d \in Deliveries, o \in PayloadOutcomes : Receive(d, o)
    \/ \E d \in Deliveries : GetUser(d)
    \/ \E d \in Deliveries : GetUserFails(d)
    \/ \E d \in Deliveries : UpdateStatus(d)
    \/ \E d \in Deliveries : GetPayment(d)
    \/ \E d \in Deliveries, today \in PayDates : CreatePromo(d, today)
    \/ \E d \in Deliveries : Activate(d)
    \/ \E d \in Deliveries : CommitDelivery(d)
    \/ \E d \in Deliveries : DeliveryFails(d)
    \/ \E d \in Deliveries : SendGiftMessage(d)
    \/ \E d \in Deliveries : GiftMessageFails(d)
    \/ \E d \in Deliveries : BuildMessageFails(d)
    \/ \E d \in Deliveries, ok \in BOOLEAN : SendMessage(d, ok)
    \/ \E d \in Deliveries, ok \in BOOLEAN : NotifyPayment(d, ok)

(***************************************************************************)
(* bot/services/crypto_pay_service.py: create_invoice                      *)
(*                                                                         *)
(* The caller hands the call its session; the call commits or rolls back   *)
(* itself. A step that raises leaves no write behind: the insert and the   *)
(* update are modelled together with their commit.                         *)
(***************************************************************************)
Invoices == 1..MaxInvoices

\* str(invoice.status) of the invoice the provider has just created
InvoiceStatusText == "active"

\* payment_dal.create_payment_record(session, {..., "status":
\* "pending_cryptopay", ..., "is_gift": is_gift}): the new row
create_payment_record(is_gift) ==
    [status |-> "pending_cryptopay", is_gift |-> is_gift]

InvCallsInit ==
    /\ paySeq = Cardinality({p \in DOMAIN payments : payments[p] # NoPayment})
    /\ ipc = [c \in Invoices |-> "idle"]
    /\ igift = [c \in Invoices |-> FALSE]
    /\ irec = [c \in Invoices |-> 0]
    /\ iret = [c \in Invoices |-> ""]
    /\ ifail = [c \in Invoices |-> ""]

InvIdle ==
    /\ configured = TRUE
    /\ InvCallsInit

\* the service was constructed with a token, or without one
InvFresh ==
    /\ configured \in BOOLEAN
    /\ InvCallsInit

\* create_invoice(session, user_id, months, amount, description, is_gift):
\* `if not self.configured or not self.client: return None`
CallCreateInvoice(c, is_gift) ==
    /\ UNCHANGED <<migVars, poVars, handlerVars, giftVars, jobVars>>
    /\ ipc[c] = "idle"
    /\ igift' = [igift EXCEPT ![c] = is_gift]
    /\ ipc' = [ipc EXCEPT ![c] = IF configured THEN "create" ELSE "returned"]
    /\ iret' = [iret EXCEPT ![c] = IF configured THEN "" ELSE "None"]
    /\ UNCHANGED <<payments, configured, paySeq, irec, ifail>>

\* create_payment_record(...) and session.commit() of lines 77-90
CreateRecord(c) ==
    /\ UNCHANGED <<migVars, poVars, handlerVars, giftVars, jobVars>>
    /\ ipc[c] = "create"
    /\ paySeq' = paySeq + 1
    /\ payments' = ((paySeq + 1) :> create_payment_record(igift[c])) @@ payments
    /\ irec' = [irec EXCEPT ![c] = paySeq + 1]
    /\ ipc' = [ipc EXCEPT ![c] = "provider"]
    /\ UNCHANGED <<configured, igift, iret, ifail>>

\* one of them raises: session.rollback(), return None. The serial keeps
\* the value the insert drew when the insert had run (drawn).
CreateRecordFails(c, drawn) ==
    /\ UNCHANGED <<migVars, poVars, handlerVars, giftVars, jobVars>>
    /\ ipc[c] = "create"
    /\ paySeq' = IF drawn THEN paySeq + 1 ELSE paySeq
    /\ ipc' = [ipc EXCEPT ![c] = "returned"]
    /\ iret' = [iret EXCEPT ![c] = "None"]
    /\ ifail' = [ifail EXCEPT ![c] = "create"]
    /\ UNCHANGED <<payments, configured, igift, irec>>

\* invoice = self.client.create_invoice(...) returns the new invoice
ProviderCreates(c) ==
    /\ UNCHANGED <<migVars, poVars, handlerVars, giftVars, jobVars>>
    /\ ipc[c] = "provider"
    /\ ipc' = [ipc EXCEPT ![c] = "update"]
    /\ UNCHANGED <<payments, configured, paySeq, igift, irec, iret, ifail>>

\* the provider call raises: `except Exception as e:` of line 128, return None
ProviderFails(c) ==
    /\ UNCHANGED <<migVars, poVars, handlerVars, giftVars, jobVars>>
    /\ ipc[c] = "provider"
    /\ ipc' = [ipc EXCEPT ![c] = "returned"]
    /\ iret' = [iret EXCEPT ![c] = "None"]
    /\ ifail' = [ifail EXCEPT ![c] = "provider"]
    /\ UNCHANGED <<payments, configured, paySeq, igift, irec>>

\* what the follow-up update of a record leaves when it raises and the
\* failure goes unnoticed: the update is committed all the same
UpdateFailureKeeps(rec) == update_provider_payment_and_status(rec, InvoiceStatusText)

\* what it leaves after session.rollback() of line 121: the record as it was
UpdateFailureLeaves(rec) == rec

\* update_provider_payment_and_status(session, payment_id, invoice_id,
\* str(invoice.status)), session.commit(), return the url and the id
UpdateRecord(c) ==
    /\ UNCHANGED <<migVars, poVars, handlerVars, giftVars, jobVars>>
    /\ ipc[c] = "update"
    /\ payments' = [payments EXCEPT ![irec[c]] =
                      update_provider_payment_and_status(@, InvoiceStatusText)]
    /\ ipc' = [ipc EXCEPT ![c] = "returned"]
    /\ iret' = [iret EXCEPT ![c] = "url"]
    /\ UNCHANGED <<configured, paySeq, igift, irec, ifail>>

\* one of them raises: session.rollback(), return None
UpdateRecordFails(c) ==
    /\ UNCHANGED <<migVars, poVars, handlerVars, giftVars, jobVars>>
    /\ ipc[c] = "update"
    /\ payments' = [payments EXCEPT ![irec[c]] = UpdateFailureLeaves(@)]
    /\ ipc' = [ipc EXCEPT ![c] = "returned"]
    /\ iret' = [iret EXCEPT ![c] = "None"]
    /\ ifail' = [ifail EXCEPT ![c] = "update"]
    /\ UNCHANGED <<configured, paySeq, igift, irec>>

NextInv ==
    \/ \E c \in Invoices, is_gift \in BOOLEAN : CallCreateInvoice(c, is_gift)
    \/ \E c \in Invoices : CreateRecord(c)
    \/ \E c \in Invoices, drawn \in BOOLEAN : CreateRecordFails(c, drawn)
    \/ \E c \in Invoices : ProviderCreates(c)
    \/ \E c \in Invoices : ProviderFails(c)
    \/ \E c \in Invoices : UpdateRecord(c)
    \/ \E c \in Invoices : UpdateRecordFails(c)

(***************************************************************************)
(* bot/scheduler/jobs.py: check_expired_subscriptions_job and              *)
(* process_subscription_autorenew.                                         *)
(*                                                                         *)
(* The job has one session. The subscriptions it is given are those of     *)
(* get_subscriptions_for_resend, in the order of the list; what the        *)
(* renewal charge writes through the session is the field `renewed`.       *)
(***************************************************************************)
Subs == 1..MaxSubs

Providers == {"yookassa", "tribute"}

EmptyJobTx == [renewed |-> {}, stepped |-> {}]

\* a function that charges whatever the provider is
yookassa_attempted_any_provider(sub) == sub.auto_renew_enabled

\* `if not sub.auto_renew_enabled: return False` and
\* `if sub.provider != "tribute": yookassa_attempted = True`
yookassa_attempted(sub) ==
    sub.auto_renew_enabled /\ sub.provider # "tribute"

\* Lines 42-51, the arguments of bot.send_photo: settings, _,
\* get_subscribe_only_markup and i18n are names that jobs.py neither imports
\* nor defines, so evaluating `settings.PHOTO_ID_VPN_DISABLED` raises
\* NameError before anything is sent.
send_photo == "NameError"

\* an except clause that raises again
JobExceptRaises(i) == [pc |-> "raised", i |-> i]

\* `except Exception as e:` of the loop body: rollback, log, next `sub`
JobExcept(i) == [pc |-> "loop", i |-> i + 1]

\* session.commit(): the rows after the session's changes are committed
JobCommit(rows, s) ==
    [x \in Subs |->
        [rows[x] EXCEPT
           !.renewed = @ \/ x \in s.renewed,
           !.resend_disable_message_step = IF x \in s.stepped THEN @ + 1 ELSE @,
           !.resend_disable_message_date = IF x \in s.stepped THEN "now" ELSE @]]

JobHistoryInit ==
    /\ charged = {}
    /\ messaged = {}
    /\ increments = [s \in Subs |-> 0]
    /\ jfailed = {}
    /\ visited = {}
    /\ jcause = [s \in Subs |-> ""]

JobCallInit ==
    /\ jpc = "idle"
    /\ ji = 1
    /\ jsess = EmptyJobTx

JobIdle ==
    /\ subscriptions =
         [s \in Subs |-> [auto_renew_enabled          |-> FALSE,
                          provider                    |-> "tribute",
                          resend_disable_message_step |-> 0,
                          resend_disable_message_date |-> "",
                          renewed                     |-> FALSE]]
    /\ JobCallInit
    /\ JobHistoryInit

JobFresh ==
    /\ subscriptions \in
         [Subs -> [auto_renew_enabled          : BOOLEAN,
                   provider                    : Providers,
                   resend_disable_message_step : {0},
                   resend_disable_message_date : {""},
                   renewed                     : {FALSE}]]
    /\ JobCallInit
    /\ JobHistoryInit

\* async with async_session_factory() as session:
\*     subs = await subscription_dal.get_subscriptions_for_resend(session)
StartJob ==
    /\ UNCHANGED <<migVars, poVars, payVars, invVars, giftVars>>
    /\ jpc = "idle"
    /\ jpc' = "loop"
    /\ ji' = 1
    /\ UNCHANGED <<subscriptions, jsess, charged, messaged, increments,
                   jfailed, visited, jcause>>

\* that query raises, outside the loop: the exception leaves the job
QueryFails ==
    /\ UNCHANGED <<migVars, poVars, payVars, invVars, giftVars>>
    /\ jpc = "idle"
    /\ jpc' = "raised"
    /\ UNCHANGED <<subscriptions, ji, jsess, charged, messaged, increments,
                   jfailed, visited, jcause>>

\* process_subscription_autorenew returns False without a charge: auto-renew
\* is off (line 14), or the provider is "tribute" (lines 20, 39, 53)
ReturnFalse ==
    /\ UNCHANGED <<migVars, poVars, payVars, invVars, giftVars>>
    /\ jpc = "loop"
    /\ ji \in Subs
    /\ ~yookassa_attempted(subscriptions[ji])
    /\ visited' = visited \cup {ji}
    /\ ji' = ji + 1
    /\ UNCHANGED <<subscriptions, jpc, jsess, charged, messaged, increments,
                   jfailed, jcause>>

\* renewed = await subscription_service.charge_subscription_renewal(session,
\* sub): it returns True, or it returns False or raises (the import of line
\* 22 included) and the session is rolled back (lines 32-36)
Charge(renewed) ==
    /\ UNCHANGED <<migVars, poVars, payVars, invVars, giftVars>>
    /\ jpc = "loop"
    /\ ji \in Subs
    /\ yookassa_attempted(subscriptions[ji])
    /\ charged' = charged \cup {ji}
    /\ IF renewed
       THEN /\ jsess' = [jsess EXCEPT !.renewed = @ \cup {ji}]
            /\ jpc' = "commit"
            /\ jcause' = jcause
       ELSE /\ jsess' = EmptyJobTx
            /\ jpc' = "send"
            /\ jcause' = [jcause EXCEPT ![ji] = "charge"]
    /\ UNCHANGED <<subscriptions, ji, messaged, increments, jfailed, visited>>

\* `if renewed: await session.commit(); return False`
CommitRenewal ==
    /\ UNCHANGED <<migVars, poVars, payVars, invVars, giftVars>>
    /\ jpc = "commit"
    /\ subscriptions' = JobCommit(subscriptions, jsess)
    /\ jsess' = EmptyJobTx
    /\ visited' = visited \cup {ji}
    /\ ji' = ji + 1
    /\ jpc' = "loop"
    /\ UNCHANGED <<charged, messaged, increments, jfailed, jcause>>

\* that commit raises: `except Exception` of line 34 rolls back
CommitRenewalFails ==
    /\ UNCHANGED <<migVars, poVars, payVars, invVars, giftVars>>
    /\ jpc = "commit"
    /\ jsess' = EmptyJobTx
    /\ jpc' = "send"
    /\ jcause' = [jcause EXCEPT ![ji] = "commit"]
    /\ UNCHANGED <<subscriptions, ji, charged, messaged, increments, jfailed,
                   visited>>

\* `if yookassa_attempted and yookassa_failed:` the failure message (lines
\* 41-52), then in the job `if handled:` the increment of the step, its date
\* and the commit (lines 65-68), whose outcome is commit_ok; an exception of
\* any of them is caught by the loop body's except clause (lines 70-76).
SendFailureMessage(commit_ok) ==
    /\ UNCHANGED <<migVars, poVars, payVars, invVars, giftVars>>
    /\ jpc = "send"
    /\ visited' = visited \cup {ji}
    /\ IF send_photo = "sent"
       THEN /\ messaged' = messaged \cup {ji}
            /\ IF commit_ok
               THEN /\ subscriptions' =
                         JobCommit(subscriptions,
                                   [jsess EXCEPT !.stepped = @ \cup {ji}])
                    /\ increments' = [increments EXCEPT ![ji] = @ + 1]
                    /\ jpc' = "loop"
                    /\ ji' = ji + 1
                    /\ jfailed' = jfailed
               ELSE /\ jpc' = JobExcept(ji).pc
                    /\ ji' = JobExcept(ji).i
                    /\ jfailed' = jfailed \cup {ji}
                    /\ UNCHANGED <<subscriptions, increments>>
       ELSE /\ jpc' = JobExcept(ji).pc
            /\ ji' = JobExcept(ji).i
            /\ jfailed' = jfailed \cup {ji}
            /\ UNCHANGED <<subscriptions, increments, messaged>>
    /\ jsess' = EmptyJobTx
    /\ UNCHANGED <<charged, jcause>>

\* `for sub in subs` is exhausted: the session is closed, the job returns
FinishJob ==
    /\ UNCHANGED <<migVars, poVars, payVars, invVars, giftVars>>
    /\ jpc = "loop"
    /\ ji > MaxSubs
    /\ jpc' = "done"
    /\ UNCHANGED <<subscriptions, ji, jsess, charged, messaged, increments,
                   jfailed, visited, jcause>>

NextJob ==
    \/ StartJob
    \/ QueryFails
    \/ ReturnFalse
    \/ \E renewed \in BOOLEAN : Charge(renewed)
    \/ CommitRenewal
    \/ CommitRenewalFails
    \/ \E commit_ok \in BOOLEAN : SendFailureMessage(commit_ok)
    \/ FinishJob

(***************************************************************************)
(* Specifications: one per subsystem.                                      *)
(***************************************************************************)
InitMig == MigFresh /\ PoIdle /\ PayIdle /\ InvIdle /\ GiftIdle /\ JobIdle

SpecMig == InitMig /\ [][NextMig]_vars

InitPayout == PoFresh /\ MigIdle /\ PayIdle /\ InvIdle /\ GiftIdle /\ JobIdle

SpecPayout == InitPayout /\ [][NextPayout]_vars

InitPay == PayFresh /\ MigIdle /\ PoIdle /\ InvIdle /\ GiftIdle /\ JobIdle

SpecPay == InitPay /\ [][NextPay]_vars

\* The steps of a handler call that the event loop resumes once the awaited
\* database call can return (an UPDATE waits while another session holds
\* the row's lock).
Resumes(d) ==
    \/ GetUser(d)
    \/ UpdateStatus(d)
    \/ GetPayment(d)
    \/ \E today \in PayDates : CreatePromo(d, today)
    \/ Activate(d)
    \/ CommitDelivery(d)

\* the outcomes of valid updates for payments that exist
RetryOutcomes ==
    {o \in PayloadOutcomes :
        o.parsed.ok /\ o.parsed.meta.payment_db_id \in PaymentIds}

\* Deliveries of valid updates, each followed up to the end of its try
\* block (its commit, or its except clause): lines 153-220.
NextRetry ==
    \/ \E d \in Deliveries, o \in RetryOutcomes : Receive(d, o)
    \/ \E d \in Deliveries : GetUser(d)
    \/ \E d \in Deliveries : GetUserFails(d)
    \/ \E d \in Deliveries : UpdateStatus(d)
    \/ \E d \in Deliveries : GetPayment(d)
    \/ \E d \in Deliveries, today \in PayDates : CreatePromo(d, today)
    \/ \E d \in Deliveries : Activate(d)
    \/ \E d \in Deliveries : CommitDelivery(d)
    \/ \E d \in Deliveries : DeliveryFails(d)

\* every payment is pending, as create_invoice recorded it
InitRetry ==
    InitPay /\ \A p \in PaymentIds : payments[p].status = "pending_cryptopay"

\* The event loop's scheduling: a call that can go on does go on. Nothing
\* is assumed about failures.
SpecRetry ==
    InitRetry /\ [][NextRetry]_vars /\ \A d \in Deliveries : WF_vars(Resumes(d))

InitInv == PayIdle /\ InvFresh /\ MigIdle /\ PoIdle /\ GiftIdle /\ JobIdle

SpecInv == InitInv /\ [][NextInv]_vars

InitGift == GiftFresh /\ MigIdle /\ PoIdle /\ PayIdle /\ InvIdle /\ JobIdle

SpecGift == InitGift /\ [][NextGift]_vars

InitJob == JobFresh /\ MigIdle /\ PoIdle /\ PayIdle /\ InvIdle /\ GiftIdle

SpecJob == InitJob /\ [][NextJob]_vars

\* The scheduler's event loop goes on with the job whenever the call it
\* awaits has returned or raised.
SpecJobFair == SpecJob /\ WF_vars(NextJob)

(***************************************************************************)
(* Claims about the migration runner (checked under SpecMig).              *)
(***************************************************************************)

\* C6: a run that directly follows a run which completed without raising
\* enters no migration's nested scope, executes no structural statement and
\* leaves the ledger exactly as it found it.
C6_SecondRunAppliesNothing ==
    prevOk => (changes = 0 /\ attempted = {} /\ ledger = startLedger)

\* a second run has completed after a first run that applied every migration
C6_Witness ==
    /\ prevOk
    /\ mpc = "done"
    /\ runNo = 2
    /\ ledger = Ids(1..NMig)

\* C7: when a migration has failed inside its nested scope (in its upgrade
\* or at the insert of its ledger row), then after the run the ledger and
\* the schema of the start of the run are still there, every migration
\* declared before the failing one is recorded with nothing of its
\* structure missing, the failing migration has no ledger row, and of its
\* elements only those that existed when the run started exist.
C7_FailedMigrationRolledBack ==
    mpc = "raised" =>
        /\ startLedger \subseteq ledger
        /\ startSchema \subseteq schema
        /\ \A j \in 1..(failedAt - 1) :
              /\ MIGRATIONS[j].id \in ledger
              /\ Upgrade(j, schema) = <<>>
        /\ MIGRATIONS[failedAt].id \notin ledger
        /\ schema \cap Elements(failedAt) = startSchema \cap Elements(failedAt)

\* migration 0005 failed at the insert of its ledger row after both of its
\* columns had been added, four migrations having been applied before it in
\* the same run
C7_Witness ==
    /\ mpc = "raised"
    /\ failedAt = 5
    /\ failStage = "insert"
    /\ startSchema = {}
    /\ changes = 8
    /\ attempted = 1..5

\* C8: once a migration has failed in a run, the run has ended by raising,
\* no migration declared after the failing one had its scope entered, and
\* no id from the failing one on was recorded in this run.
C8_FailFast ==
    failedAt # 0 =>
        /\ mpc = "raised"
        /\ \A j \in attempted : j <= failedAt
        /\ \A j \in failedAt..NMig :
              MIGRATIONS[j].id \in ledger => MIGRATIONS[j].id \in startLedger

\* a migration that is not the last one failed while later ones were pending
C8_Witness ==
    /\ mpc = "raised"
    /\ failedAt = 2
    /\ attempted = {1, 2}
    /\ ledger = Ids({1})

\* C9: the ledger (empty at first) always holds the ids of a prefix of the
\* declared list, whatever runs succeeded or failed before.
C9_LedgerIsPrefix ==
    \E k \in 0..NMig : ledger = Ids(1..k)

\* a later run failed at migration 0004 after an earlier run had failed at
\* migration 0002
C9_Witness ==
    /\ runNo >= 2
    /\ mpc = "raised"
    /\ startLedger = Ids({1})
    /\ failedAt = 4
    /\ ledger = Ids(1..3)

\* C22: in every step of every run, failed runs included, each id that is
\* in the ledger stays in it, and a migration whose nested scope is entered
\* or whose upgrade is running or has returned has no row in the ledger.
C22_LedgerOnlyGrows ==
    [][/\ ledger \subseteq ledger'
       /\ (mpc' \in {"upgrade", "insert"} => MIGRATIONS[mi'].id \notin ledger')
       /\ \A j \in attempted' \ attempted : MIGRATIONS[j].id \notin ledger]_vars

\* a third run completed the list after two runs that had failed, the
\* second of them having started with one row and added two
C22_Witness ==
    /\ runNo = 3
    /\ mpc = "done"
    /\ ~prevOk
    /\ startLedger = Ids(1..3)
    /\ ledger = Ids(1..NMig)

\* C23: a migration whose elements all exist when a run starts and whose id
\* is missing from the ledger is executed again by that run: its upgrade
\* issues no statement and leaves the schema as the savepoint took it, every
\* element of it is still there, and once the loop has passed it its row is
\* in the ledger again.
C23_UpgradeIdempotent ==
    \A j \in attempted :
        (Elements(j) \subseteq startSchema /\ MIGRATIONS[j].id \notin startLedger) =>
            /\ (j = mi /\ mpc \in {"upgrade", "insert"}) =>
                  (stmts = <<>> /\ schema = savepoint.schema)
            /\ Elements(j) \subseteq schema
            /\ (failedAt # j /\ (j < mi \/ mpc = "done")) =>
                  MIGRATIONS[j].id \in ledger

\* the first run over a schema that has every element and an empty ledger
\* has executed all six migrations, changed nothing and recorded all six
C23_Witness ==
    /\ runNo = 1
    /\ mpc = "done"
    /\ startSchema = UNION {Elements(j) : j \in 1..NMig}
    /\ startLedger = {}
    /\ attempted = 1..NMig
    /\ changes = 0
    /\ schema = startSchema
    /\ ledger = Ids(1..NMig)

(***************************************************************************)
(* Claims about the expired-subscription job (checked under SpecJob and    *)
(* SpecJobFair).                                                           *)
(***************************************************************************)

C3_ConcurrentRequestsOneRow ==
    \A r \in Requests, q \in Requests :
        ( /\ r # q
          /\ ruser[r] = ruser[q]
          /\ {r, q} \subseteq overlapped
          /\ rpc[r] = "done"
          /\ rpc[q] = "done" )
        => /\ Cardinality(RowsOf(ruser[r])) = 1
           /\ \A p \in RowsOf(ruser[r]) : p.price = credited[ruser[r]]
           /\ balance[ruser[r]] = 0

\* C4: for each user, the requested amounts of the user's payout rows plus
\* the current balance add up to what was credited to the balance.
C4_NoDoubleSpending ==
    \A u \in Users : SumPrices(RowsOf(u)) + balance[u] = credited[u]

\* C5: among the committed rows, the calls whose zeroing of the balance is
\* committed are exactly the calls whose payout row exists; and a call that
\* failed at any step has neither its zeroing nor its row committed.
C5_ZeroAndRowTogether ==
    /\ zeroCommits = {p.by : p \in payouts}
    /\ \A r \in Requests :
          rpc[r] \in {"failed", "notify_failed"} =>
              /\ r \notin zeroCommits
              /\ \A p \in payouts : p.by # r

\* one call failed after its insert and its notification while another
\* call committed its zeroing and its row
C5_Witness ==
    \E r \in Requests, q \in Requests :
        /\ rpc[r] = "failed"
        /\ r \in notified
        /\ rpc[q] = "done"
        /\ q \in zeroCommits
        /\ \E p \in payouts : p.by = q /\ p.price >= PayoutThreshold

\* C16 (checked under SpecPayout, where it fails): whenever a message that
\* reports a monetary state has been sent, the state it reports is
\* committed: a call whose new-payout notification was sent has its payout
\* row among the committed rows, and a webhook delivery that attempted a
\* message has its status write committed.
C16_MessagesOnlyAfterCommit ==
    /\ \A r \in notified : \E p \in payouts : p.by = r
    /\ \A m \in tried : m[1] \in statusCommits

\* C17: of two submissions of one user that ran concurrently and have both
\* completed without raising, only one zeroed the balance, only one sent a
\* new-payout notification, and one payout row exists.
C17_DuplicateSubmissionIsNoop ==
    \A r \in Requests, q \in Requests :
        ( /\ r # q
          /\ ruser[r] = ruser[q]
          /\ {r, q} \subseteq overlapped
          /\ rpc[r] = "done"
          /\ rpc[q] = "done" )
        => /\ ~({r, q} \subseteq zeroCommits)
           /\ ~({r, q} \subseteq notified)
           /\ Cardinality({p \in payouts : p.by \in {r, q}}) <= 1

\* C18: a call whose new-payout notification failed has its zeroing of the
\* balance and its payout row committed all the same.
C18_NotificationHasNoBearing ==
    \A r \in Requests :
        rpc[r] = "notify_failed" =>
            /\ r \in zeroCommits
            /\ \E p \in payouts : p.by = r

\* C20 as stated: a call that ran alone and completed leaves the balance of
\* its user at 0 and exactly one payout row of its own, whose amount is the
\* balance it read, whose requisites are the submitted text, whose status is
\* "created" and whose created-at is set; the row is its user's, and a user
\* whose balance differs from what was credited has a committed zeroing of
\* a call of their own.
C20_SinglePayoutAsStated ==
    \A r \in Requests :
        (rpc[r] = "done" /\ r \notin overlapped) =>
            /\ balance[ruser[r]] = 0
            /\ Cardinality({p \in payouts : p.by = r}) = 1
            /\ \A p \in payouts : p.by = r =>
                  /\ p.user_id = ruser[r]
                  /\ p.price = rbalance[r]
                  /\ p.requisites = rtext[r]
                  /\ p.status = "created"
                  /\ p.created_at # ""
            /\ \A v \in Users :
                  balance[v] # credited[v] =>
                      \E q \in zeroCommits : ruser[q] = v

\* C20 as amended: the same, the requisites being the submitted text
\* without its leading and trailing whitespace.
C20_SinglePayout ==
    \A r \in Requests :
        (rpc[r] = "done" /\ r \notin overlapped) =>
            /\ balance[ruser[r]] = 0
            /\ Cardinality({p \in payouts : p.by = r}) = 1
            /\ \A p \in payouts : p.by = r =>
                  /\ p.user_id = ruser[r]
                  /\ p.price = rbalance[r]
                  /\ p.requisites = Strip(rtext[r])
                  /\ p.status = "created"
                  /\ p.created_at # ""
            /\ \A v \in Users :
                  balance[v] # credited[v] =>
                      \E q \in zeroCommits : ruser[q] = v

\* user 1, with a balance of 1000, submitted " 42" in the only call there
\* was; the row holds 1000 and "42", and user 2 still has 1000
C20_Witness ==
    /\ rpc[1] = "done"
    /\ overlapped = {}
    /\ ruser[1] = 1
    /\ rtext[1] = <<" ", "4", "2">>
    /\ \E p \in payouts : p.price = 1000 /\ p.requisites = <<"4", "2">>
    /\ balance = [u \in Users |-> IF u = 1 THEN 0 ELSE 1000]
    /\ \A q \in Requests \ {1} : rpc[q] = "idle"

\* C25: every payout row has a requested amount that is at least the
\* threshold.
C25_RowsAtLeastThreshold ==
    \A p \in payouts : p.price >= PayoutThreshold

\* C26: a call whose requisites were rejected and whose handler is over has
\* committed no zeroing and no payout row, has sent no new-payout
\* notification, and has returned without raising.
C26_RejectedRequisites ==
    \A r \in Requests :
        (rpc[r] \in {"done", "unbound"} /\ is_suspicious(Strip(rtext[r]))) =>
            /\ r \notin zeroCommits
            /\ \A p \in payouts : p.by # r
            /\ r \notin notified
            /\ rpc[r] = "done"

\* C21 (checked under SpecPayout, where it fails): whenever an operation is
\* about to await an outbound message or a notifier call (requestPayout its
\* notification or its reply, handle() its message or its notification, the
\* renewal job its failure message), its session holds no uncommitted
\* change.
C21_NoTransactionAcrossMessage ==
    /\ \A r \in Requests :
          rpc[r] \in {"notify", "reply"} => rsess[r] = EmptySession
    /\ \A d \in Deliveries :
          dpc[d] \in {"gift_msg", "gift_notify", "msg", "notify"} =>
              dsess[d] = EmptyTx
    /\ jpc = "send" => jsess = EmptyJobTx

(***************************************************************************)
(* Claims about the webhook handler (checked under SpecPay).               *)
(***************************************************************************)

\* C1: a delivery that arrives after a delivery for the same payment has
\* succeeded (committed and run to its end) adds nothing: no status write of its own is
\* committed, and no gift code and no activation of its own exists.
C1_RedeliveryAddsNothing ==
    \A d \in Deliveries : \A e \in doneBefore[d] :
        dmeta[e].payment_db_id = dmeta[d].payment_db_id =>
            /\ d \notin statusCommits
            /\ \A g \in promo_codes : g.by # d
            /\ \A a \in activations : a.by # d

\* C2: of two deliveries for the same payment that ran concurrently, at most
\* one has its status write committed and at most one has a gift code or an
\* activation of its own.
C2_ConcurrentDeliveriesOneEffect ==
    \A d \in Deliveries, e \in Deliveries :
        ( /\ d # e
          /\ {d, e} \subseteq doverlap
          /\ dmeta[d].payment_db_id = dmeta[e].payment_db_id )
        => /\ ~({d, e} \subseteq statusCommits)
           /\ ~({d, e} \subseteq {x.by : x \in promo_codes \cup activations})

\* C11: a delivery whose handler met an exception inside its try block
\* before the commit (at the status update, the payment lookup, the gift
\* code insert, the activation or the commit itself, a timeout being such
\* an exception) has nothing left: its session holds no write, no status
\* write, gift code or activation of its own is committed, and unless another
\* delivery settled the payment the record still has its pending status.
C11_ExceptionRollsBack ==
    \A d \in Deliveries :
        dpc[d] = "failed" =>
            /\ dsess[d] = EmptyTx
            /\ d \notin statusCommits
            /\ \A x \in promo_codes \cup activations : x.by # d
            /\ ( /\ dmeta[d].payment_db_id \in PaymentIds
                 /\ \A e \in statusCommits :
                       dmeta[e].payment_db_id # dmeta[d].payment_db_id )
               => payments[dmeta[d].payment_db_id].status \in PendingStatuses

\* the only delivery for the gift payment failed after its status update and
\* its payment lookup: the payment is pending and no gift code exists
C11_Witness ==
    /\ dpc[1] = "failed"
    /\ dpayment[1].is_gift
    /\ statusCommits = {}
    /\ promo_codes = {}
    /\ payments[2].status \in PendingStatuses

\* C12 (checked under SpecInv): the status of a payment record only moves
\* forward. A record is created pending; whenever its status changes, it
\* changes from pending to succeeded or from pending to failed; a record
\* that is succeeded or failed keeps its status; and no step of invoice
\* creation leaves a status outside {pending, succeeded, failed}.
C12_StatusForwardOnly ==
    [][\A p \in DOMAIN payments' :
          LET old == IF p \in DOMAIN payments THEN payments[p].status ELSE ""
              new == payments'[p].status
          IN  /\ new \in {"", "pending_cryptopay", "succeeded", "failed"}
              /\ new # old =>
                    \/ old = "" /\ new = "pending_cryptopay"
                    \/ old = "pending_cryptopay" /\ new \in {"succeeded", "failed"}
      ]_vars

\* C19 (checked under SpecInv): a call of create_invoice in which a step
\* raised has returned None and is over (nothing is tried again). When the
\* provider call or the follow-up update raised, the record the call wrote
\* is still there with its pending status; when the initial write raised,
\* the call left no record. Every record belongs to exactly one call, and
\* no gift code or activation exists.
C19_CreateInvoiceFailure ==
    /\ \A c \in Invoices :
          /\ ifail[c] # "" => ipc[c] = "returned" /\ iret[c] = "None"
          /\ ifail[c] \in {"provider", "update"} =>
                /\ irec[c] \in DOMAIN payments
                /\ payments[irec[c]].status = "pending_cryptopay"
          /\ ifail[c] = "create" => irec[c] = 0
    /\ {p \in DOMAIN payments : payments[p] # NoPayment}
          = {irec[c] : c \in Invoices} \ {0}
    /\ \A c \in Invoices, e \in Invoices :
          irec[c] # 0 /\ irec[c] = irec[e] => c = e
    /\ promo_codes = {} /\ activations = {}

\* one call failed at its follow-up update after the provider had created
\* the invoice, another failed at its initial write
C19_Witness ==
    \E c \in Invoices, e \in Invoices :
        /\ ifail[c] = "update"
        /\ payments[irec[c]].status = "pending_cryptopay"
        /\ ifail[e] = "create"
        /\ iret[e] = "None"

\* C13: a delivery whose handler has passed its commit has, when the payment
\* is flagged as gift, exactly one gift code of its own (max activations 1,
\* current activations 0, active), has not invoked activate_subscription and
\* has no activation; when the payment is not a gift, it has invoked
\* activate_subscription, has exactly one activation and no gift code.
C13_BranchesExclusive ==
    \A d \in Deliveries :
        dpc[d] \in {"gift_msg", "gift_notify", "msg_failed", "msg",
                    "msg_raised", "notify", "done"} =>
            LET codes == {g \in promo_codes : g.by = d}
                acts  == {a \in activations : a.by = d}
            IN  IF payments[dmeta[d].payment_db_id].is_gift
                THEN /\ Cardinality(codes) = 1
                     /\ \A g \in codes : /\ g.max_activations = 1
                                          /\ g.current_activations = 0
                                          /\ g.is_active
                     /\ d \notin invoked
                     /\ acts = {}
                ELSE /\ d \in invoked
                     /\ Cardinality(acts) = 1
                     /\ codes = {}

\* one delivery settled the gift payment and another the ordinary payment
C13_Witness ==
    \E d \in Deliveries, e \in Deliveries :
        /\ dpc[d] = "done" /\ dmeta[d].payment_db_id = 2
        /\ dpc[e] = "done" /\ dmeta[e].payment_db_id = 1
        /\ Cardinality(promo_codes) = 1
        /\ Cardinality(activations) = 1

\* C14 (checked under SpecGift): for every current date and every month
\* count N >= 1, the bonus days of the gift code are the number of days of
\* the calendar month N months after the current month: 30 for April, June,
\* September and November, 29 or 28 for February of a leap or a common year
\* of the target year, 31 otherwise. So N = 1 gives 29 in January 2024, 28
\* in January 2023, and 31 in any December.
C14_BonusDaysOfTargetMonth ==
    gpc = "issued" =>
        LET t  == gtoday.year * 12 + (gtoday.month - 1) + gmonths
            ty == t \div 12
            tm == (t % 12) + 1
            leap == (ty % 4 = 0 /\ ty % 100 # 0) \/ ty % 400 = 0
        IN  /\ gbonus = CASE tm \in {4, 6, 9, 11} -> 30
                           [] tm = 2 -> IF leap THEN 29 ELSE 28
                           [] OTHER -> 31
            /\ (gmonths = 1 /\ gtoday.month = 1 /\ gtoday.year = 2024)
                  => gbonus = 29
            /\ (gmonths = 1 /\ gtoday.month = 1 /\ gtoday.year = 2023)
                  => gbonus = 28
            /\ (gmonths = 1 /\ gtoday.month = 12) => gbonus = 31

\* a gift of 3 months bought in November 2023 reaches February of the leap
\* year 2024
C14_Witness ==
    /\ gpc = "issued"
    /\ gtoday = Date(2023, 11, 15)
    /\ gmonths = 3
    /\ gbonus = 29

\* C15: a delivery whose handler has committed and has returned, nothing
\* but the message transport having failed after the commit, has attempted
\* the user message and the payment notification (each once: the handler
\* holds one call of each on either branch), whether or not either was
\* delivered; it has come to its end without the except clause; and what it
\* committed is committed still.
C15_MessageAndNotificationAttempted ==
    \A d \in Deliveries :
        dpc[d] \in {"msg_failed", "done"} =>
            /\ <<d, "user">> \in tried
            /\ <<d, "admin">> \in tried
            /\ dpc[d] = "done"
            /\ d \in statusCommits
            /\ payments[dmeta[d].payment_db_id].status = "succeeded"

\* the promo codes and activations committed for payment p
EffectsFor(p) ==
    {x \in promo_codes \cup activations : x.payment_id = p}

\* payment p exists and its committed status is succeeded
Succeeded(p) == p \in PaymentIds /\ payments[p].status = "succeeded"

\* the handler of delivery e has passed its commit
PastCommit(e) ==
    dpc[e] \in {"gift_msg", "gift_notify", "msg", "notify", "done",
                "msg_failed", "msg_raised"}

\* the handler of delivery d is inside its try block, before the commit
InTry(d) ==
    dpc[d] \in {"update", "get_payment", "promo", "commit_gift", "activate",
                "commit"}

\* C24 (checked under SpecRetry): no delivery of a valid update stays for
\* ever inside the try block of its handler, whatever deliveries have failed
\* before it: it fails or it commits; a delivery that has committed has its
\* payment succeeded; and when every other delivery for that payment has
\* failed before its commit (or has not got that far), exactly one promo
\* code or activation, that delivery's, is committed for the payment.
C24_RetryLiveness ==
    /\ []<>(\A d \in Deliveries : ~InTry(d))
    /\ [](\A d \in Deliveries :
            PastCommit(d) =>
               /\ Succeeded(dmeta[d].payment_db_id)
               /\ (\A e \in Deliveries \ {d} :
                      dmeta[e].payment_db_id = dmeta[d].payment_db_id =>
                          ~PastCommit(e))
                   => /\ Cardinality(EffectsFor(dmeta[d].payment_db_id)) = 1
                      /\ \A x \in EffectsFor(dmeta[d].payment_db_id) : x.by = d)

\* the first delivery for payment 1 failed at its commit, the activation
\* already made in its session, and the second delivery for it has committed
C24_Witness ==
    /\ dpc[1] = "failed"
    /\ 1 \in invoked
    /\ dmeta[1].payment_db_id = 1
    /\ dmeta[2].payment_db_id = 1
    /\ dpc[2] = "msg"
    /\ payments[1].status = "succeeded"
    /\ Cardinality(EffectsFor(1)) = 1

\* C10: a delivery whose payload is empty, is no JSON object, lacks a
\* required field or holds a field that is no number is dropped: its
\* session holds no write, nothing of it is committed, it invoked no
\* activation and sent no message.
C10_UnparseableDropped ==
    \A d \in Deliveries :
        dwhy[d] # "" =>
            /\ dpc[d] = "dropped"
            /\ dsess[d] = EmptyTx
            /\ d \notin statusCommits
            /\ d \notin invoked
            /\ \A x \in promo_codes \cup activations : x.by # d
            /\ \A m \in sent : m[1] # d

\* a payload with a field that is no number was dropped after an earlier
\* delivery had been settled, whose rows it left alone
C10_Witness ==
    /\ dpc[2] = "dropped"
    /\ dwhy[2] = "non_numeric"
    /\ dpc[1] = "done"
    /\ 1 \in statusCommits
    /\ payments[dmeta[1].payment_db_id].status = "succeeded"

====
